---- MODULE Spec2Model ----
(***************************************************************************)
(* redlist: the batch driver entry_point() and the per-playlist pipeline   *)
(* main() of src/redlist/__main__.py, run on one asyncio event loop.       *)
(*                                                                         *)
(* main() is a coroutine: between two awaits it runs without interruption, *)
(* and while it is suspended at an await every task that is pending on the *)
(* loop may take a step, the tasks of an earlier playlist included.        *)
(***************************************************************************)
EXTENDS Integers, Sequences, FiniteSets, TLC

\* ------------------------------------------------------------------ bounds
MaxPlaylists == 2       \* playlists on the command line: 1..MaxPlaylists
MaxTracks == 2          \* track identities, and the longest playlist
MaxReleases == 2        \* catalog releases a search can select

Tracks == 1..MaxTracks
Playlists == 1..MaxPlaylists

\* Python's None is the empty tuple and a value v is <<v>>, so that an
\* optional value compares with None.
None == <<>>
Some(v) == <<v>>
Releases == {Some(r) : r \in 1..MaxReleases}

VARIABLES
    options,        \* parsed command line: yes, restrict_album, enable_deluge
    spotlists,      \* number of playlist arguments
    cur,            \* index of the playlist the for loop is at
    pc,             \* position of the main thread of control
    track_info,     \* main: parsed playlist, a sequence of tracks
    matched,        \* main: ordered mapping track -> library item or None
    unmatched,      \* main: list of tracks without a library item
    results,        \* main: ordered mapping track -> release or None
    missing,        \* main: tracks whose search returned None
    downloads,      \* main: ordered mapping track -> release
    searches,       \* main: the search tasks it put on the loop
    dls,            \* main: the download tasks it put on the loop
    orphans,        \* per playlist, the tasks still pending on the loop after
                    \* its main ended: how many searches, how many downloads
    client,         \* per playlist, the deluge.Client of the with block: times
                    \* opened, times closed, and whether it was used when closed
    API,            \* utils.API: "none", "open" or "closed"
    batch_results,  \* entry_point: results
    ends,           \* per ended run of main, how it ended: "returned", "raised"
    exit_code,      \* process exit status, -1 while running
    hist            \* observations of the latest run of main, read by the
                    \* properties only; cleared when the next run starts

vars == <<options, spotlists, cur, pc, track_info, matched, unmatched, results,
          missing, downloads, searches, dls, orphans, client, API, batch_results,
          ends, exit_code, hist>>

locals == <<track_info, matched, unmatched, results, missing, downloads>>

launched == <<searches, dls, orphans>>

\* what no step of main changes
fixed == <<options, spotlists, exit_code>>

\* ------------------------------------------------- ordered mappings (dict)
\* A dict is a sequence of <<key, value>> pairs with distinct keys, in
\* insertion order.
Keys(d) == {d[i][1] : i \in 1..Len(d)}

Values(d) == [i \in 1..Len(d) |-> d[i][2]]

DictSet(d, k, v) ==
    IF k \in Keys(d)
    THEN [i \in 1..Len(d) |-> IF d[i][1] = k THEN <<k, v>> ELSE d[i]]
    ELSE Append(d, <<k, v>>)

DictGet(d, k) == LET i == CHOOSE j \in 1..Len(d) : d[j][1] = k IN d[i][2]

SeqToSet(s) == {s[i] : i \in 1..Len(s)}

SeqsUpTo(S, n) == UNION {[1..m -> S] : m \in 0..n}

\* Tracks are compared for equality only, so a playlist is taken up to the
\* names of its tracks: a track is named by the place of its first
\* occurrence (<<1, 2, 1>>, never <<2, 1, 2>>).
ParsedPlaylists ==
    {s \in SeqsUpTo(Tracks, MaxTracks) :
        \A i \in 1..Len(s) : \A t \in 1..(s[i] - 1) : \E j \in 1..(i - 1) : s[j] = t}

\* ---------------------------------------------------------------- matching
RECURSIVE beets_match_from(_, _, _)
beets_match_from(tracks, library, acc) ==
    IF tracks = <<>> THEN acc
    ELSE beets_match_from(Tail(tracks), library,
             DictSet(acc, Head(tracks),
                     IF Head(tracks) \in library THEN Some("item") ELSE None))

\* matching.beets_match: one lookup per descriptor, result keyed by track in
\* playlist order.
beets_match(tracks, library) == beets_match_from(tracks, library, <<>>)

UnmatchedOfPlaylist(m, tracks) ==
    SelectSeq(tracks, LAMBDA t : DictGet(m, t) = None)

\* line 45: unmatched = [track for track, i in matched.items() if i is None]
Unmatched(m, tracks) ==
    LET hit == SelectSeq(m, LAMBDA kv : kv[2] = None)
    IN  [i \in 1..Len(hit) |-> hit[i][1]]

\* ------------------------------------------------------------- entry_point
ExitCodeAny(rs) == IF \E i \in 1..Len(rs) : rs[i] = 0 THEN 0 ELSE 1

\* lines 200-203: exit 1 unless every recorded result is 0
ExitCode(rs) == IF \A i \in 1..Len(rs) : rs[i] = 0 THEN 0 ELSE 1

NoHist ==
    [run |-> 0, m3u |-> FALSE, prompts |-> 0, auth |-> "none",
     search |-> "none", shortfall |-> FALSE, answer |-> "none",
     checked |-> FALSE, budget |-> <<>>, fetch |-> "none",
     m3u_of |-> <<>>, unmatched |-> 0, declined |-> "none",
     nsearch |-> 0, ndl |-> 0]

NoLocals ==
    /\ track_info' = <<>>
    /\ matched' = <<>>
    /\ unmatched' = <<>>
    /\ results' = <<>>
    /\ missing' = <<>>
    /\ downloads' = <<>>

NextPc == IF cur = spotlists THEN "close_api" ELSE "parse"

Pending(ts) == Len(SelectSeq(ts, LAMBDA t : t.st = "pending"))

\* When main ends its frame is dropped, and with it its references to the
\* tasks; a task that is still pending stays scheduled on the event loop.
EndOfMain ==
    /\ cur' = cur + 1
    /\ pc' = NextPc
    /\ NoLocals
    /\ searches' = <<>>
    /\ dls' = <<>>
    /\ orphans' = [orphans EXCEPT ![cur] =
                     [search |-> Pending(searches), dl |-> Pending(dls)]]

\* line 193: main returned r, run_until_complete hands it to results.append
Returned(r) ==
    /\ batch_results' = Append(batch_results, r)
    /\ ends' = Append(ends, "returned")
    /\ EndOfMain

RaisedUnrecorded ==
    /\ batch_results' = batch_results
    /\ ends' = Append(ends, "raised")
    /\ EndOfMain

\* lines 194-196: main raised, the except clause records 1
Raised ==
    /\ batch_results' = Append(batch_results, 1)
    /\ ends' = Append(ends, "raised")
    /\ EndOfMain

Init ==
    /\ options \in [yes : BOOLEAN, restrict_album : BOOLEAN, enable_deluge : BOOLEAN]
    /\ spotlists \in Playlists
    /\ cur = 1
    /\ pc = "parse"
    /\ track_info = <<>>
    /\ matched = <<>>
    /\ unmatched = <<>>
    /\ results = <<>>
    /\ missing = <<>>
    /\ downloads = <<>>
    /\ searches = <<>>
    /\ dls = <<>>
    /\ orphans = [p \in Playlists |-> [search |-> 0, dl |-> 0]]
    /\ client = [p \in Playlists |-> [opens |-> 0, closes |-> 0, stale |-> FALSE]]
    /\ API = "none"
    /\ batch_results = <<>>
    /\ ends = <<>>
    /\ exit_code = -1
    /\ hist = NoHist

\* lines 37-41: open the library and await playlist.parse_playlist
ParsePlaylist ==
    /\ pc = "parse"
    /\ UNCHANGED <<fixed, client, API>>
    /\ \/ /\ \E tracks \in ParsedPlaylists : track_info' = tracks
          /\ pc' = "match"
          /\ hist' = [NoHist EXCEPT !.run = cur]
          /\ UNCHANGED <<cur, matched, unmatched, results, missing, downloads,
                         launched, batch_results, ends>>
       \/ /\ Raised
          /\ hist' = [NoHist EXCEPT !.run = cur]

MatchWritesM3uOnReturn ==
    /\ pc = "match"
    /\ UNCHANGED <<fixed, client, API>>
    /\ \E library \in SUBSET SeqToSet(track_info) :
         LET m == beets_match(track_info, library)
             u == Unmatched(m, track_info)
         IN  IF Len(u) = 0
             THEN /\ Returned(0)
                  /\ hist' = [hist EXCEPT !.m3u = TRUE, !.m3u_of = m]
             ELSE /\ matched' = m
                  /\ unmatched' = u
                  /\ pc' = "ask_search"
                  /\ hist' = [hist EXCEPT !.unmatched = Len(u)]
                  /\ UNCHANGED <<cur, track_info, results, missing, downloads,
                                 launched, batch_results, ends>>

\* lines 44-54: match, write the m3u, return 0 when nothing is unmatched
Match ==
    /\ pc = "match"
    /\ UNCHANGED <<fixed, client, API>>
    /\ \E library \in SUBSET SeqToSet(track_info) :
         LET m == beets_match(track_info, library)
             u == Unmatched(m, track_info)
         IN  IF Len(u) = 0
             THEN /\ Returned(0)
                  /\ hist' = [hist EXCEPT !.m3u = TRUE, !.m3u_of = m]
             ELSE /\ matched' = m
                  /\ unmatched' = u
                  /\ pc' = "ask_search"
                  /\ hist' = [hist EXCEPT !.m3u = TRUE, !.m3u_of = m,
                                          !.unmatched = Len(u)]
                  /\ UNCHANGED <<cur, track_info, results, missing, downloads,
                                 launched, batch_results, ends>>

\* ------------------------------------------------------------ search stage
AskSearchAlwaysPrompts ==
    /\ pc = "ask_search"
    /\ UNCHANGED <<fixed, client, API>>
    /\ \E answer \in {"y", "n"} :
         IF answer = "y"
         THEN /\ pc' = "connect"
              /\ hist' = [hist EXCEPT !.prompts = @ + 1]
              /\ UNCHANGED <<cur, locals, launched, batch_results, ends>>
         ELSE /\ Returned(0)
              /\ hist' = [hist EXCEPT !.prompts = @ + 1, !.declined = "search"]

\* lines 57-61: the search prompt, skipped under -y
AskSearch ==
    /\ pc = "ask_search"
    /\ UNCHANGED <<fixed, client, API>>
    /\ IF options.yes
       THEN /\ pc' = "connect"
            /\ UNCHANGED <<cur, locals, launched, batch_results, ends, hist>>
       ELSE \E answer \in {"y", "n"} :
              IF answer = "y"
              THEN /\ pc' = "connect"
                   /\ hist' = [hist EXCEPT !.prompts = @ + 1]
                   /\ UNCHANGED <<cur, locals, launched, batch_results, ends>>
              ELSE /\ Returned(0)
                   /\ hist' = [hist EXCEPT !.prompts = @ + 1,
                                           !.declined = "search"]

ConnectCancelRaises ==
    /\ pc = "connect"
    /\ UNCHANGED <<fixed, client>>
    /\ \/ /\ API' = "open"
          /\ pc' = "search"
          /\ UNCHANGED <<cur, locals, launched, batch_results, ends, hist>>
       \/ /\ Raised
          /\ hist' = [hist EXCEPT !.auth = "cancelled"]
          /\ UNCHANGED API

\* lines 62-68: await utils.get_api(); PinEntryCancelled returns 0
Connect ==
    /\ pc = "connect"
    /\ UNCHANGED <<fixed, client>>
    /\ \/ /\ API' = "open"
          /\ pc' = "search"
          /\ UNCHANGED <<cur, locals, launched, batch_results, ends, hist>>
       \/ /\ Returned(0)
          /\ hist' = [hist EXCEPT !.auth = "cancelled"]
          /\ UNCHANGED API

\* line 73: the restrict_album argument every find_album call is given
SearchRestrictAlbum(opts) == FALSE

\* lines 70-74: one ensure_future(find_album(...)) per entry of unmatched
SearchTasks(u, opts) ==
    [i \in 1..Len(u) |->
       [track |-> u[i], restrict_album |-> SearchRestrictAlbum(opts),
        st |-> "pending", res |-> None]]

RECURSIVE TasksFrom(_, _, _)
TasksFrom(ss, i, acc) ==
    IF i > Len(ss) THEN acc
    ELSE TasksFrom(ss, i + 1, DictSet(acc, ss[i].track, i))

\* line 74: tasks[track] = task, the dict main gathers and reads results from
Tasks(ss) == TasksFrom(ss, 1, <<>>)

LaunchSearch ==
    /\ pc = "search"
    /\ searches' = SearchTasks(unmatched, options)
    /\ pc' = "gather_search"
    /\ hist' = [hist EXCEPT !.nsearch = Len(searches')]
    /\ UNCHANGED <<fixed, cur, locals, dls, orphans, client, API, batch_results,
                   ends>>

\* The event loop runs, and pending tasks step, only while the main thread is
\* inside run_until_complete and suspended at an await.
AwaitPcs == {"parse", "connect", "gather_search", "budget", "gather_dl"}

LoopRunning == pc \in AwaitPcs \/ (pc = "close_api" /\ API = "open")

Found(ss) == {ss[i].res : i \in 1..Len(ss)} \ {None}

\* redsearch.find_album returns a selected release or None, or it raises.
\* Releases are compared for equality only, so they are named in the order
\* the searches of one playlist first return them: a search returns a
\* release a sibling already returned, or the next new one.
FindAlbumReturns(ss) ==
    {None} \cup {r \in Releases : \A q \in 1..(r[1] - 1) : Some(q) \in Found(ss)}

\* one search task of the running main runs to its end
SearchStep(i) ==
    /\ LoopRunning
    /\ searches[i].st = "pending"
    /\ \/ \E out \in FindAlbumReturns(searches) :
            searches' = [searches EXCEPT ![i] = [@ EXCEPT !.st = "done", !.res = out]]
       \/ searches' = [searches EXCEPT ![i] = [@ EXCEPT !.st = "raised"]]
    /\ UNCHANGED <<fixed, cur, pc, locals, dls, orphans, client, API,
                   batch_results, ends, hist>>

\* a search task of an ended main runs to its end; nothing reads its result
OrphanSearchStep(p) ==
    /\ LoopRunning
    /\ orphans[p].search > 0
    /\ orphans' = [orphans EXCEPT ![p].search = @ - 1]
    /\ UNCHANGED <<fixed, cur, pc, locals, searches, dls, client, API,
                   batch_results, ends, hist>>

ResultsBySequence(ss) ==
    LET d == Tasks(ss)
    IN  [i \in 1..Len(d) |-> <<d[i][1], ss[d[Len(d) + 1 - i][2]].res>>]

\* line 80: results = {t: v.result() for t, v in tasks.items()}
Results(ss) ==
    LET d == Tasks(ss) IN [i \in 1..Len(d) |-> <<d[i][1], ss[d[i][2]].res>>]

\* line 81: missing = [t for t, v in results.items() if v is None]
Missing(rs) ==
    LET none == SelectSeq(rs, LAMBDA kv : kv[2] = None)
    IN  [i \in 1..Len(none) |-> none[i][1]]

DownloadsUnfiltered(rs) == rs

\* line 93: downloads = {t: group for t, group in results.items() if group is not None}
Downloads(rs) == SelectSeq(rs, LAMBDA kv : kv[2] # None)

\* asyncio.gather(*aws) returns once every awaited task has a result
GatherDone(ts) == \A i \in 1..Len(ts) : ts[i].st = "done"

\* asyncio.gather(*aws) raises as soon as one awaited task has raised
GatherRaises(ts) == \E i \in 1..Len(ts) : ts[i].st \notin {"pending", "done"}

\* tasks.values(): the tasks line 76 awaits
Awaited(ss) == LET d == Tasks(ss) IN [i \in 1..Len(d) |-> ss[d[i][2]]]

\* lines 76-98: await asyncio.gather(*tasks.values()), then aggregate
GatherSearch ==
    /\ pc = "gather_search"
    /\ UNCHANGED <<fixed, client, API>>
    /\ \/ /\ GatherRaises(Awaited(searches))
          /\ Raised
          /\ hist' = [hist EXCEPT !.search = "raised"]
       \/ /\ GatherDone(Awaited(searches))
          /\ results' = Results(searches)
          /\ missing' = Missing(Results(searches))
          /\ downloads' = Downloads(Results(searches))
          /\ pc' = "ask_dl"
          /\ hist' = [hist EXCEPT !.search = "aggregated"]
          /\ UNCHANGED <<cur, track_info, matched, unmatched, launched,
                         batch_results, ends>>

\* ------------------------------------------------------- acquisition stage
AskDownloadSkipsBudget ==
    /\ pc = "ask_dl"
    /\ UNCHANGED <<fixed, client, API>>
    /\ IF options.yes
       THEN /\ pc' = "acquire"
            /\ UNCHANGED <<cur, locals, launched, batch_results, ends, hist>>
       ELSE \E answer \in {"y", "n"} :
              IF answer = "y"
              THEN /\ pc' = "acquire"
                   /\ hist' = [hist EXCEPT !.prompts = @ + 1]
                   /\ UNCHANGED <<cur, locals, launched, batch_results, ends>>
              ELSE /\ Returned(0)
                   /\ hist' = [hist EXCEPT !.prompts = @ + 1,
                                           !.declined = "download"]

AskDownloadIgnoresAnswer ==
    /\ pc = "ask_dl"
    /\ UNCHANGED <<fixed, client, API>>
    /\ pc' = "budget"
    /\ UNCHANGED <<cur, locals, launched, batch_results, ends>>
    /\ IF options.yes
       THEN UNCHANGED hist
       ELSE \E answer \in {"y", "n"} :
              hist' = [hist EXCEPT !.prompts = @ + 1,
                          !.declined = IF answer = "y" THEN @ ELSE "download"]

\* lines 89-100: list the torrents, then the download prompt unless -y
AskDownload ==
    /\ pc = "ask_dl"
    /\ UNCHANGED <<fixed, client, API>>
    /\ IF options.yes
       THEN /\ pc' = "budget"
            /\ UNCHANGED <<cur, locals, launched, batch_results, ends, hist>>
       ELSE \E answer \in {"y", "n"} :
              IF answer = "y"
              THEN /\ pc' = "budget"
                   /\ hist' = [hist EXCEPT !.prompts = @ + 1]
                   /\ UNCHANGED <<cur, locals, launched, batch_results, ends>>
              ELSE /\ Returned(0)
                   /\ hist' = [hist EXCEPT !.prompts = @ + 1,
                                           !.declined = "download"]

ShortfallNeedsAnswer(yes, answer) == answer = "y"

\* lines 105-106: after a shortfall, go on under -y or when the user says y
ShortfallProceeds(yes, answer) == yes \/ answer = "y"

\* lines 101-109: await utils.check_dl_buffer(downloads.values(), api);
\* NotEnoughDownloadBuffer is logged and, unless -y, the user is asked
CheckBudget ==
    /\ pc = "budget"
    /\ UNCHANGED <<fixed, client, API>>
    /\ \/ /\ pc' = "acquire"
          /\ hist' = [hist EXCEPT !.checked = TRUE, !.budget = Values(downloads)]
          /\ UNCHANGED <<cur, locals, launched, batch_results, ends>>
       \/ \E answer \in IF options.yes THEN {"none"} ELSE {"y", "n"} :
            LET h == [hist EXCEPT !.checked = TRUE, !.budget = Values(downloads),
                                  !.shortfall = TRUE, !.answer = answer,
                                  !.prompts = IF options.yes THEN @ ELSE @ + 1]
            IN  IF ShortfallProceeds(options.yes, answer)
                THEN /\ pc' = "acquire"
                     /\ hist' = h
                     /\ UNCHANGED <<cur, locals, launched, batch_results, ends>>
                ELSE /\ Returned(0)
                     /\ hist' = [h EXCEPT !.declined = "continue"]

\* lines 119-121 and 131-134: one ensure_future per value of downloads
DlTasks(d, sink) ==
    [i \in 1..Len(d) |->
       [track |-> d[i][1], torrent |-> d[i][2], sink |-> sink, st |-> "pending"]]

\* line 124: with deluge.Client() as client: the session is opened on entry
DelugeEnter(c) == [c EXCEPT !.opens = @ + 1]

DelugeExitOnSuccessOnly(c, raised) ==
    IF raised THEN c ELSE [c EXCEPT !.closes = @ + 1]

\* lines 124-135: leaving the with block closes the session, whether the
\* block ends normally or by an exception
DelugeExit(c, raised) == [c EXCEPT !.closes = @ + 1]

IsOpen(c) == c.opens > c.closes

\* lines 118-121, 123-134: launch the download tasks, local or through deluge
LaunchDownloads ==
    /\ pc = "acquire"
    /\ IF options.enable_deluge
       THEN /\ client' = [client EXCEPT ![cur] = DelugeEnter(@)]
            /\ dls' = DlTasks(downloads, "deluge")
       ELSE /\ dls' = DlTasks(downloads, "file")
            /\ UNCHANGED client
    /\ pc' = "gather_dl"
    /\ hist' = [hist EXCEPT !.ndl = Len(dls')]
    /\ UNCHANGED <<fixed, cur, locals, searches, orphans, API, batch_results,
                   ends>>

\* line 129: client.add_torrent_file(filename, data, paused), a call on the
\* session in whatever state it is in by then
AddTorrentFile(c) == [c EXCEPT !.stale = @ \/ ~IsOpen(c)]

\* lines 114-115 and 129: the sink a task hands its payload to
Sink(c, sink) == IF sink = "deluge" THEN AddTorrentFile(c) ELSE c

\* lines 111-116 (dl_torrent) and 127-129 (add_torrent): one task of the
\* running main, from its fetch to its write or its submission
DlStep(i) ==
    /\ LoopRunning
    /\ dls[i].st = "pending"
    /\ \/ \* line 113 / 128: api.get_torrent raises
          /\ dls' = [dls EXCEPT ![i] = [@ EXCEPT !.st = "raised"]]
          /\ UNCHANGED client
       \/ \* lines 114-115 / 129: the write or the submission raises
          /\ dls' = [dls EXCEPT ![i] = [@ EXCEPT !.st = "raised"]]
          /\ client' = [client EXCEPT ![cur] = Sink(@, dls[i].sink)]
       \/ \* fetched and written, or fetched and submitted
          /\ dls' = [dls EXCEPT ![i] = [@ EXCEPT !.st = "done"]]
          /\ client' = [client EXCEPT ![cur] = Sink(@, dls[i].sink)]
    /\ UNCHANGED <<fixed, cur, pc, locals, searches, orphans, API,
                   batch_results, ends, hist>>

\* lines 118, 123: the sink every download task of the batch is given
SinkOf(opts) == IF opts.enable_deluge THEN "deluge" ELSE "file"

\* a download task of an ended main runs to its end: its fetch raises, or it
\* fetches and then writes the file or calls add_torrent_file on the client
\* of its with block
OrphanDlStep(p) ==
    /\ LoopRunning
    /\ orphans[p].dl > 0
    /\ orphans' = [orphans EXCEPT ![p].dl = @ - 1]
    /\ \/ UNCHANGED client
       \/ client' = [client EXCEPT ![p] = Sink(@, SinkOf(options))]
    /\ UNCHANGED <<fixed, cur, pc, locals, searches, dls, API,
                   batch_results, ends, hist>>

\* lines 122, 135-138: await asyncio.gather(*dls), leave the with block
GatherDl ==
    /\ pc = "gather_dl"
    /\ UNCHANGED <<fixed, API>>
    /\ \/ /\ GatherRaises(dls)
          /\ client' = IF options.enable_deluge
                       THEN [client EXCEPT ![cur] = DelugeExit(@, TRUE)]
                       ELSE client
          /\ Raised
          /\ hist' = [hist EXCEPT !.fetch = "raised"]
       \/ /\ GatherDone(dls)
          /\ client' = IF options.enable_deluge
                       THEN [client EXCEPT ![cur] = DelugeExit(@, FALSE)]
                       ELSE client
          /\ Returned(0)
          /\ hist' = [hist EXCEPT !.fetch = "done"]

\* ------------------------------------------------------- end of the batch
\* lines 198-199: close the API session when one was opened
CloseApi ==
    /\ pc = "close_api"
    /\ API' = IF API = "open" THEN "closed" ELSE API
    /\ pc' = "exit"
    /\ UNCHANGED <<fixed, cur, locals, launched, client, batch_results, ends, hist>>

\* lines 200-203: sys.exit(1) or sys.exit()
Exit ==
    /\ pc = "exit"
    /\ exit_code' = ExitCode(batch_results)
    /\ pc' = "done"
    /\ UNCHANGED <<options, spotlists, cur, locals, launched, client,
                   API, batch_results, ends, hist>>

Next ==
    \/ ParsePlaylist
    \/ Match
    \/ AskSearch
    \/ Connect
    \/ LaunchSearch
    \/ \E i \in 1..Len(searches) : SearchStep(i)
    \/ \E p \in Playlists : OrphanSearchStep(p)
    \/ GatherSearch
    \/ AskDownload
    \/ CheckBudget
    \/ LaunchDownloads
    \/ \E i \in 1..Len(dls) : DlStep(i)
    \/ \E p \in Playlists : OrphanDlStep(p)
    \/ GatherDl
    \/ CloseApi
    \/ Exit

Spec == Init /\ [][Next]_vars

\* ------------------------------------------------------------- properties
RunEnded == hist.run # 0 /\ Len(ends) >= hist.run

InRun == hist.run = cur /\ pc \in {"ask_dl", "budget", "acquire", "gather_dl"}

\* C1: when the process exits, the exit code is 0 if the main of every
\* playlist of the batch returned, and 1 if the main of any playlist raised.
C1_ExitCode ==
    /\ pc = "done" =>
          exit_code = IF \A p \in 1..spotlists : ends[p] = "returned" THEN 0 ELSE 1
    /\ pc # "done" => exit_code = -1

C1_Witness ==
    /\ pc = "done"
    /\ exit_code = 1
    /\ \E p \in 1..spotlists : ends[p] = "returned"

\* C2: every playlist is run in argument order and leaves exactly one
\* result; a playlist whose main raised leaves the result 1, and the
\* playlists after it are still run before the batch ends.
C2_PerPlaylistIsolation ==
    /\ Len(ends) = cur - 1
    /\ Len(batch_results) = Len(ends)
    /\ \A p \in 1..Len(ends) : ends[p] = "raised" => batch_results[p] = 1
    /\ hist.run \in {cur - 1, cur}
    /\ pc \in {"close_api", "exit", "done"} => Len(batch_results) = spotlists

C2_Witness ==
    /\ Len(ends) = 2
    /\ ends[1] = "raised"
    /\ ends[2] = "returned"
    /\ hist.run = 2
    /\ hist.fetch = "done"

\* C3: whenever the acquisition stage is left, every download task has run
\* to its own outcome and main goes on to return: a task that failed has
\* not aborted the run, nor left a sibling pending.
C3_AcquisitionFailureIsolated ==
    [][(pc = "gather_dl" /\ pc' # "gather_dl") =>
          (ends' = Append(ends, "returned") /\ orphans'[cur].dl = 0)]_vars

\* C4: whenever the search stage is left, it is left for the aggregate, and
\* every track whose search raised is in the missing list: no error of a
\* search task escapes the stage.
C4_SearchErrorsContained ==
    [][(pc = "gather_search" /\ pc' # "gather_search") =>
          /\ pc' = "ask_dl"
          /\ \A i \in 1..Len(searches) :
                searches[i].st = "raised" => searches[i].track \in SeqToSet(missing')]_vars

\* C5: no search task is still pending once the search stage of its
\* playlist has been left.
C5_SearchJoinsAll == \A p \in Playlists : orphans[p].search = 0

\* C6: in deluge mode the session of a run is opened once, when the
\* acquisition stage is entered, and closed exactly once when the stage is
\* left, whether the downloads all succeeded or one of them raised; a run
\* that ends before the stage opens none.
C6_SessionScoped ==
    \A p \in Playlists :
        /\ client[p].opens <= 1
        /\ client[p].closes <= client[p].opens
        /\ p # cur => client[p].closes = client[p].opens
        /\ (p = cur /\ pc = "gather_dl" /\ options.enable_deluge) =>
               (client[p].opens = 1 /\ client[p].closes = 0)
        /\ (p = hist.run /\ hist.fetch # "none" /\ options.enable_deluge) =>
               (client[p].opens = 1 /\ client[p].closes = 1)
        /\ (p = hist.run /\ hist.fetch = "none" /\ RunEnded) => client[p].opens = 0

C6_Witness ==
    /\ options.enable_deluge
    /\ RunEnded
    /\ hist.fetch = "raised"
    /\ orphans[hist.run].dl > 0
    /\ client[hist.run].closes = 1

\* C7: no two download tasks of a run fetch the same release.
C7_OneTaskPerRelease ==
    \A i, j \in 1..Len(dls) : i # j => dls[i].torrent # dls[j].torrent

\* C8: once the search stage has produced its aggregate, the keys of
\* results are exactly the unmatched tracks, and the tracks with a release
\* plus the tracks without one are as many as the unmatched tracks.
C8_SearchDomain ==
    InRun =>
        /\ Keys(results) = SeqToSet(unmatched)
        /\ Len(downloads) + Len(missing) = Len(unmatched)
        /\ Keys(downloads) \cap SeqToSet(missing) = {}

C8_Witness ==
    /\ InRun
    /\ Len(downloads) >= 1
    /\ Len(missing) >= 1

\* C9: every search task is given the configured restrict_album setting.
C9_SearchRestrictsAlbum ==
    \A i \in 1..Len(searches) :
        searches[i].restrict_album = options.restrict_album

\* C10: after a budget shortfall, under -y or on the answer y the download
\* tasks are launched, and the run then fails only if a download raised;
\* on the answer n the run ends with result 0 and no download task.
C10_ShortfallNotFatal ==
    hist.shortfall =>
        IF options.yes \/ hist.answer = "y"
        THEN /\ ~RunEnded => pc \in {"acquire", "gather_dl"}
             /\ RunEnded => hist.fetch # "none"
             /\ (RunEnded /\ batch_results[hist.run] # 0) => hist.fetch = "raised"
        ELSE /\ RunEnded
             /\ batch_results[hist.run] = 0
             /\ hist.fetch = "none"
             /\ dls = <<>>
             /\ orphans[hist.run].dl = 0

C10_Witness ==
    /\ hist.shortfall
    /\ hist.answer = "n"
    /\ RunEnded
    /\ Len(hist.budget) >= 1

\* C11: when the authentication of a run is cancelled, the run ends at once
\* by returning 0, and it has launched no search task and no download task.
C11_AuthCancelledIsGraceful ==
    hist.auth = "cancelled" =>
        /\ RunEnded
        /\ ends[hist.run] = "returned"
        /\ batch_results[hist.run] = 0
        /\ hist.nsearch = 0 /\ hist.ndl = 0
        /\ hist.search = "none" /\ hist.fetch = "none"
        /\ orphans[hist.run] = [search |-> 0, dl |-> 0]
        /\ client[hist.run].opens = 0

C11_Witness ==
    /\ hist.auth = "cancelled"
    /\ hist.unmatched >= 1
    /\ RunEnded

\* C12: a run in which the user declines ends there with result 0: after a
\* declined search prompt it has launched no search task and no download
\* task, and after a declined download or shortfall prompt no download task.
C12_DeclineLaunchesNothing ==
    /\ hist.declined # "none" =>
          /\ RunEnded
          /\ batch_results[hist.run] = 0
          /\ hist.ndl = 0 /\ hist.fetch = "none"
          /\ dls = <<>> /\ orphans[hist.run].dl = 0
    /\ hist.declined = "search" =>
          /\ hist.nsearch = 0 /\ hist.search = "none"
          /\ searches = <<>> /\ orphans[hist.run].search = 0
          /\ ~hist.checked

C12_Witness ==
    /\ hist.declined = "download"
    /\ hist.search = "aggregated"
    /\ hist.nsearch >= 1
    /\ RunEnded

\* C13: under -y no run issues a prompt or is ended by an answer, and a run
\* that has unmatched tracks and returns, other than by a cancelled
\* authentication, has passed every gate: it has checked the budget and
\* gathered its download tasks.
C13_AssumeYes ==
    options.yes =>
        /\ hist.prompts = 0
        /\ hist.declined = "none"
        /\ hist.answer = "none"
        /\ (RunEnded /\ ends[hist.run] = "returned" /\ hist.unmatched >= 1
               /\ hist.auth # "cancelled") =>
              (hist.checked /\ hist.fetch = "done")

C13_Witness ==
    /\ options.yes
    /\ hist.shortfall
    /\ hist.ndl >= 1
    /\ hist.fetch = "done"
    /\ RunEnded

\* C14: in a run that has launched a download task, check_dl_buffer had
\* completed, with or without a shortfall, before the launch, and it was
\* given the releases the tasks fetch.
C14_BudgetBeforeFetch ==
    /\ (hist.ndl >= 1 \/ dls # <<>>) => hist.checked
    /\ dls # <<>> => hist.budget = [i \in 1..Len(dls) |-> dls[i].torrent]

C14_Witness ==
    /\ pc = "gather_dl"
    /\ Len(dls) = 2
    /\ Pending(dls) = 2
    /\ hist.checked
    /\ ~hist.shortfall

\* C15: every search task is for a track the matcher left unmatched, and a
\* run with no unmatched track launches none; every download task is for a
\* track whose search selected a release, and fetches that release; the
\* budget check is given the selected releases and nothing else.
C15_ForwardDataFlow ==
    /\ \A i \in 1..Len(searches) :
          /\ searches[i].track \in Keys(matched)
          /\ DictGet(matched, searches[i].track) = None
    /\ (hist.m3u /\ hist.unmatched = 0) => (hist.nsearch = 0 /\ hist.ndl = 0)
    /\ \A i \in 1..Len(dls) :
          /\ dls[i].track \in Keys(results)
          /\ dls[i].torrent \in Releases
          /\ DictGet(results, dls[i].track) = dls[i].torrent
    /\ (InRun /\ hist.checked) =>
          hist.budget = Values(SelectSeq(results, LAMBDA kv : kv[2] \in Releases))

C15_Witness ==
    /\ pc = "gather_dl"
    /\ Len(searches) = 2
    /\ Len(dls) = 1
    /\ Len(missing) = 1
    /\ Len(hist.budget) = 1

\* C16: the aggregate depends on what each track's search returned and on
\* nothing else: results pairs the i-th unmatched track with the result of
\* its own task, in the order of unmatched, and missing and downloads are
\* the tracks without and with a release, in that order, whichever search
\* finished first.
C16_KeyedByTrack ==
    InRun =>
        /\ Len(searches) = Len(unmatched)
        /\ results = [i \in 1..Len(unmatched) |-> <<unmatched[i], searches[i].res>>]
        /\ missing = SelectSeq(unmatched, LAMBDA t : DictGet(results, t) = None)
        /\ Keys(downloads) = {t \in SeqToSet(unmatched) : DictGet(results, t) # None}
        /\ \A i \in 1..Len(downloads) : downloads[i][2] = DictGet(results, downloads[i][1])

\* Releases are named in the order they are first returned, so here the
\* search of the second track finished before the search of the first.
C16_Witness ==
    /\ pc = "ask_dl"
    /\ results = << <<1, Some(2)>>, <<2, Some(1)>> >>

\* C17: add_torrent_file is never called on a deluge session that has been
\* closed.
C17_NoSubmitAfterRelease == \A p \in Playlists : ~client[p].stale

\* C18: no task runs after the main that launched it has ended: the tasks
\* a run left pending on the loop never take a step.
C18_NoTaskOutlivesItsRun ==
    [][\A p \in Playlists :
          /\ orphans'[p].search >= orphans[p].search
          /\ orphans'[p].dl >= orphans[p].dl]_vars

AfterMatch ==
    \/ hist.run = cur /\ pc \in {"ask_search", "connect", "search", "gather_search",
                                  "ask_dl", "budget", "acquire", "gather_dl"}
    \/ hist.prompts > 0
    \/ hist.auth # "none"
    \/ hist.nsearch > 0
    \/ hist.checked
    \/ hist.ndl > 0

\* C19: a run that is past matching - at a prompt, connecting, searching,
\* checking the budget or downloading, or ended after any of these - has
\* written its m3u from the match result, and no later step of the run,
\* its end included, takes the m3u back or changes it.
C19_M3uFirst ==
    /\ [](AfterMatch => hist.m3u)
    /\ []((hist.run = cur /\ hist.m3u) => hist.m3u_of = matched)
    /\ [][(hist.m3u /\ hist'.run = hist.run) =>
             (hist'.m3u /\ hist'.m3u_of = hist.m3u_of)]_vars

C19_Witness ==
    /\ RunEnded
    /\ hist.m3u
    /\ Len(hist.m3u_of) >= 1
    /\ hist.search = "raised"
====
